---- MODULE Spec2Model ----
(***************************************************************************)
(* Model of focus_timer: the Timer entity of src/timer.rs and its          *)
(* lifecycle methods.  Timestamps are whole seconds (Utc::now().timestamp) *)
(* and a method call runs within one second of the clock, so every         *)
(* Utc::now() read inside one call sees the same value.                    *)
(*                                                                         *)
(* The store of src/storage.rs is modelled next to it: the SQLite file     *)
(* (tables, version records, timer rows, AUTOINCREMENT counter), the       *)
(* handle of the running process and the Storage methods.  Text is a       *)
(* sequence of one-character strings, so that trimming, counting ':' and   *)
(* parsing are computed as the code computes them.                         *)
(*                                                                         *)
(* Spec       the Timer state machine, the store left alone                *)
(* SpecStore  the Storage methods on one backing file                      *)
(* SpecParse  Storage::str_to_time applied to date strings                 *)
(* SpecColl   TimerCollection of src/timer.rs: items, size, print_stat and *)
(*            export over a collection built from rows                     *)
(* SpecLib    the single-handle Storage of src/lib.rs with its current     *)
(*            timer: start_timer, pause_timer, stop_timer                  *)
(* SpecRace   two processes sharing one file, each reading a row, applying *)
(*            a Timer transition and writing the row back                  *)
(***************************************************************************)
EXTENDS Integers, Sequences, FiniteSets, TLC

VARIABLES timer, now, last, hist, db, handle, slast, written, parses,
          coll, clast, lib, llast, race

\* The Timer, the wall clock, the last Timer call and the history of the
\* Timer: the seconds it has spent Running and whether only set_start,
\* set_stop and set_complete have been called on it.
tvars == <<timer, now, last, hist>>

\* The backing file, the open handle, the last Storage call and, per id, the
\* row the caller last wrote.
svars == <<db, handle, slast, written>>

\* The str_to_time calls made so far and their results.
pvars == <<parses>>

\* The TimerCollection and the last call on it.
cvars == <<coll, clast>>

\* The Storage of lib.rs (its table and its current timer) and the last call
\* on it.
lvars == <<lib, llast>>

\* The two processes working on one row: where each stands, what it read and
\* the order in which they wrote.
rvars == <<race>>

vars == <<timer, now, last, hist, db, handle, slast, written, parses,
          coll, clast, lib, llast, race>>

(* ---------------------------------------------------------------- bounds *)

\* Largest value of the wall clock (seconds) explored.
MaxTime == 4

\* Task labels handed to Timer::from(String).
Tasks == {"demo", "test"}

(* ------------------------------------------------------------ TimerStatus *)

TimerStatus == {"NEW", "RUN", "PAUSED", "COMPLETED", "DELETED"}

TimerError == {"TimerHasFiniteState"}

Ok(t) == [t |-> t, res |-> "Ok"]

Err(t, e) == [t |-> t, res |-> e]

(* ------------------------------------------------------------------ Timer *)

\* Timer::new: the struct literal.
new(id, task, start, end, idle, status) ==
    [id |-> id, task |-> task, start |-> start, end |-> end,
     idle |-> idle, status |-> status]

\* impl From<String> for Timer, with t = Utc::now().
FromTask(task, t) == new(0, task, t, t, 0, "NEW")

\* C1 mutant: the terminal arm is missing, so a terminal timer falls into
\* the catch-all arm and is set Running.
set_start_NoTerminalArm(t, n) ==
    CASE t.status = "NEW" ->
           Ok([t EXCEPT !.start = n, !.end = n, !.status = "RUN"])
      [] t.status = "PAUSED" ->
           Ok([t EXCEPT !.idle = n - t.end, !.status = "RUN"])
      [] OTHER ->
           Ok([t EXCEPT !.status = "RUN"])

\* C8 mutant: the NEW arm forgets to reset end.
set_start_NewKeepsEnd(t, n) ==
    CASE t.status \in {"DELETED", "COMPLETED"} ->
           Err(t, "TimerHasFiniteState")
      [] t.status = "NEW" ->
           Ok([t EXCEPT !.start = n, !.status = "RUN"])
      [] t.status = "PAUSED" ->
           Ok([t EXCEPT !.idle = n - t.end, !.status = "RUN"])
      [] OTHER ->
           Ok([t EXCEPT !.status = "RUN"])

\* Timer::set_start, n = the value Utc::now() returns during the call.
set_start(t, n) ==
    CASE t.status \in {"DELETED", "COMPLETED"} ->
           Err(t, "TimerHasFiniteState")
      [] t.status = "NEW" ->
           Ok([t EXCEPT !.start = n, !.end = n, !.status = "RUN"])
      [] t.status = "PAUSED" ->
           Ok([t EXCEPT !.idle = n - t.end, !.status = "RUN"])
      [] OTHER ->
           Ok([t EXCEPT !.status = "RUN"])

\* C9 mutant: the early return for an already Paused timer is missing, so
\* the pause boundary is overwritten.
set_stop_NoPausedReturn(t, n) ==
    IF t.status = "DELETED" \/ t.status = "COMPLETED"
    THEN Err(t, "TimerHasFiniteState")
    ELSE LET r1 == IF t.status = "NEW" THEN set_start(t, n) ELSE Ok(t)
         IN  IF r1.res # "Ok" THEN r1
             ELSE Ok([r1.t EXCEPT !.end = n, !.status = "PAUSED"])

\* C27 mutant: pausing starts the idle count afresh.
set_stop_ResetsIdle(t, n) ==
    IF t.status = "DELETED" \/ t.status = "COMPLETED"
    THEN Err(t, "TimerHasFiniteState")
    ELSE LET r1 == IF t.status = "NEW" THEN set_start(t, n) ELSE Ok(t)
         IN  IF r1.res # "Ok" THEN r1
             ELSE IF r1.t.status = "PAUSED" THEN Ok(r1.t)
             ELSE Ok([r1.t EXCEPT !.end = n, !.idle = 0, !.status = "PAUSED"])

\* Timer::set_stop.  r1 is the timer after the optional `self.set_start()?`.
set_stop(t, n) ==
    IF t.status = "DELETED" \/ t.status = "COMPLETED"
    THEN Err(t, "TimerHasFiniteState")
    ELSE LET r1 == IF t.status = "NEW" THEN set_start(t, n) ELSE Ok(t)
         IN  IF r1.res # "Ok" THEN r1
             ELSE IF r1.t.status = "PAUSED" THEN Ok(r1.t)
             ELSE Ok([r1.t EXCEPT !.end = n, !.status = "PAUSED"])

\* C10 mutant: a Running timer is completed without the implicit pause, so
\* end is not snapshotted.
set_complete_NoImplicitStop(t, n) ==
    LET r1 == IF t.status = "NEW" THEN set_start(t, n) ELSE Ok(t)
    IN  IF r1.res # "Ok" THEN r1
        ELSE Ok([r1.t EXCEPT !.status = "COMPLETED"])

\* Timer::set_complete.  r1, r2 are the timer after each optional nested
\* call; `?` returns the nested error.
set_complete(t, n) ==
    LET r1 == IF t.status = "NEW" THEN set_start(t, n) ELSE Ok(t)
    IN  IF r1.res # "Ok" THEN r1
        ELSE LET r2 == IF r1.t.status = "RUN" THEN set_stop(r1.t, n)
                       ELSE Ok(r1.t)
             IN  IF r2.res # "Ok" THEN r2
                 ELSE Ok([r2.t EXCEPT !.status = "COMPLETED"])

\* C7 mutant: delete guarded like the other transitions.
set_delete_Guarded(t) ==
    IF t.status \in {"DELETED", "COMPLETED"}
    THEN Err(t, "TimerHasFiniteState")
    ELSE Ok([t EXCEPT !.status = "DELETED"])

\* Timer::set_delete.
set_delete(t) == Ok([t EXCEPT !.status = "DELETED"])

\* C6 mutant: the wall clock is used for every status.
time_on_AlwaysNow(t, n) == (n - t.start) - t.idle

\* Timer::time_on, n = Utc::now().timestamp().
time_on(t, n) ==
    LET time == IF t.status = "RUN" THEN n - t.start
                ELSE t.end - t.start
    IN  time - t.idle

(* ------------------------------------------------------------------- text *)

Digits == <<"0", "1", "2", "3", "4", "5", "6", "7", "8", "9">>

IsDigit(c) == \E i \in 1..10 : Digits[i] = c

DigitVal(c) == (CHOOSE i \in 1..10 : Digits[i] = c) - 1

IsSpace(c) == c = " "

\* str::trim: the text without leading and trailing whitespace.
Trim(s) ==
    LET keep == {i \in 1..Len(s) : ~IsSpace(s[i])}
    IN  IF keep = {} THEN <<>>
        ELSE LET lo == CHOOSE i \in keep : \A j \in keep : i <= j
                 hi == CHOOSE i \in keep : \A j \in keep : i >= j
             IN  SubSeq(s, lo, hi)

\* str::contains(':') and str::matches(':').count().
Count(s, c) == Cardinality({i \in 1..Len(s) : s[i] = c})

Contains(s, c) == \E i \in 1..Len(s) : s[i] = c

(* ---------------------------------------------- NaiveDateTime::parse_from_str *)

\* The three formats of str_to_time as chrono items: a numeric field
\* (Y, m, d, H, M, S), a literal ('-', ':') or whitespace (' ').
Formats ==
    << <<"Y", "-", "m", "-", "d">>,
       <<"Y", "-", "m", "-", "d", " ", "H", ":", "M">>,
       <<"Y", "-", "m", "-", "d", " ", "H", ":", "M", ":", "S">> >>

NumericItems == {"Y", "m", "d", "H", "M", "S"}

\* Most digits a numeric item consumes (unsigned input).
Width(item) == IF item = "Y" THEN 4 ELSE 2

\* First position at or after i that holds no whitespace (str::trim_start).
SkipWs(s, i) ==
    LET stop == {j \in i..Len(s) : ~IsSpace(s[j])}
    IN  IF stop = {} THEN Len(s) + 1
        ELSE CHOOSE j \in stop : \A k \in stop : j <= k

\* Number of digits at position i, at most max (scan::number).
NumLen(s, i, max) ==
    LET ks == {k \in 0..max : \A j \in i..(i + k - 1) : j <= Len(s) /\ IsDigit(s[j])}
    IN  CHOOSE k \in ks : \A l \in ks : k >= l

RECURSIVE NumVal(_, _, _)
NumVal(s, i, k) ==
    IF k = 0 THEN 0
    ELSE 10 * NumVal(s, i, k - 1) + DigitVal(s[i + k - 1])

NoFields == [Y |-> -1, m |-> -1, d |-> -1, H |-> -1, M |-> -1, S |-> -1]

ParseFail == [ok |-> FALSE, f |-> NoFields]

\* format::parse: consume the items of fmt from position i on; the whole
\* text must be consumed (TooLong otherwise).  A numeric item skips
\* leading whitespace, a whitespace item matches any run of whitespace.
RECURSIVE ParseItems(_, _, _, _, _)
ParseItems(s, i, fmt, k, f) ==
    IF k > Len(fmt)
    THEN IF i <= Len(s) THEN ParseFail ELSE [ok |-> TRUE, f |-> f]
    ELSE LET item == fmt[k]
         IN  IF item \in NumericItems
             THEN LET j == SkipWs(s, i)
                      n == NumLen(s, j, Width(item))
                  IN  IF n = 0 THEN ParseFail
                      ELSE ParseItems(s, j + n, fmt, k + 1,
                                      [f EXCEPT ![item] = NumVal(s, j, n)])
             ELSE IF item = " "
             THEN ParseItems(s, SkipWs(s, i), fmt, k + 1, f)
             ELSE IF i <= Len(s) /\ s[i] = item
                  THEN ParseItems(s, i + 1, fmt, k + 1, f)
                  ELSE ParseFail

IsLeap(y) == (y % 4 = 0 /\ y % 100 # 0) \/ y % 400 = 0

DaysInMonth(y, m) ==
    IF m = 2 THEN (IF IsLeap(y) THEN 29 ELSE 28)
    ELSE IF m \in {4, 6, 9, 11} THEN 30 ELSE 31

\* Days from 1970-01-01 to the civil date y-m-d (proleptic Gregorian).
DaysFromCivil(y, m, d) ==
    LET yy == IF m <= 2 THEN y - 1 ELSE y
        era == yy \div 400
        yoe == yy - era * 400
        mp == IF m > 2 THEN m - 3 ELSE m + 9
        doy == (153 * mp + 2) \div 5 + d - 1
        doe == yoe * 365 + yoe \div 4 - yoe \div 100 + doy
    IN  era * 146097 + doe - 719468

\* Parsed::to_naive_datetime_with_offset(0): date, hour and minute are
\* required, second defaults to 0, every field is range-checked; a leap
\* second (60) is kept in the nanoseconds and reads as second 59.
FieldsValid(f) ==
    /\ f.Y >= 0 /\ f.m \in 1..12
    /\ f.d >= 1 /\ f.d <= DaysInMonth(f.Y, f.m)
    /\ f.H \in 0..23 /\ f.M \in 0..59
    /\ f.S \in (-1)..60

\* DateTime::timestamp of the parsed fields taken as UTC.
Timestamp(f) ==
    LET sec == IF f.S = -1 THEN 0 ELSE IF f.S = 60 THEN 59 ELSE f.S
    IN  DaysFromCivil(f.Y, f.m, f.d) * 86400 + f.H * 3600 + f.M * 60 + sec

\* NaiveDateTime::parse_from_str(text, format).
parse_from_str(s, fmt) ==
    LET r == ParseItems(s, 1, fmt, 1, NoFields)
    IN  IF r.ok /\ FieldsValid(r.f) THEN [ok |-> TRUE, ts |-> Timestamp(r.f)]
        ELSE [ok |-> FALSE, ts |-> 0]

(* ----------------------------------------------------------------- Storage *)

SCHEMA_VERSION == 1

StorageError ==
    {"DatabaseError", "SchemaVersionError", "TimerDoesNotExists",
     "ConnectionNotFound", "WrongDatetimeFormat"}

TimeOk(ts) == [res |-> "Ok", ts |-> ts]

TimeErr == [res |-> "WrongDatetimeFormat", ts |-> 0]

\* The text str_to_time hands to the parser.
Normalize(t) ==
    IF ~Contains(t, ":") THEN t \o <<" ", "0", "0", ":", "0", "0", ":", "0", "0">>
    ELSE IF Count(t, ":") = 1 THEN t \o <<":", "0", "0">>
    ELSE t

\* C20 mutant: the text is handed to the parser without normalisation, so
\* a date without a time has no hour and minute for NaiveDateTime.
str_to_time_NoNormalize(time_s) ==
    LET t == Trim(time_s)
    IN  IF t = <<>> THEN TimeErr
        ELSE LET ok == {k \in 1..Len(Formats) : parse_from_str(t, Formats[k]).ok}
             IN  IF ok = {} THEN TimeErr
                 ELSE LET k == CHOOSE k \in ok : \A l \in ok : k <= l
                      IN  TimeOk(parse_from_str(t, Formats[k]).ts)

\* Storage::str_to_time.  The first format that parses gives the result;
\* the timestamp is cast to u64 (the identity from 1970 on).
str_to_time(time_s) ==
    LET t == Trim(time_s)
    IN  IF t = <<>> THEN TimeErr
        ELSE LET n == Normalize(t)
                 ok == {k \in 1..Len(Formats) : parse_from_str(n, Formats[k]).ok}
             IN  IF ok = {} THEN TimeErr
                 ELSE LET k == CHOOSE k \in ok : \A l \in ok : k <= l
                      IN  TimeOk(parse_from_str(n, Formats[k]).ts)

(* ------------------------------------------------------- SQLite cell values *)

\* A text value is converted on its way into a column of NUMERIC affinity
\* (the declared type STRING) when it is a well-formed integer or real
\* literal, blanks around it allowed.  NumStep is the recogniser's step.
NumStep(q, c) ==
    CASE q = "start" ->
           (IF IsSpace(c) THEN "start"
            ELSE IF c \in {"+", "-"} THEN "sign"
            ELSE IF IsDigit(c) THEN "int"
            ELSE IF c = "." THEN "dot0" ELSE "fail")
      [] q = "sign" ->
           (IF IsDigit(c) THEN "int" ELSE IF c = "." THEN "dot0" ELSE "fail")
      [] q = "int" ->
           (IF IsDigit(c) THEN "int"
            ELSE IF c = "." THEN "frac"
            ELSE IF c \in {"e", "E"} THEN "e"
            ELSE IF IsSpace(c) THEN "tail" ELSE "fail")
      [] q = "dot0" -> (IF IsDigit(c) THEN "frac" ELSE "fail")
      [] q = "frac" ->
           (IF IsDigit(c) THEN "frac"
            ELSE IF c \in {"e", "E"} THEN "e"
            ELSE IF IsSpace(c) THEN "tail" ELSE "fail")
      [] q = "e" ->
           (IF c \in {"+", "-"} THEN "esign"
            ELSE IF IsDigit(c) THEN "exp" ELSE "fail")
      [] q = "esign" -> (IF IsDigit(c) THEN "exp" ELSE "fail")
      [] q = "exp" ->
           (IF IsDigit(c) THEN "exp"
            ELSE IF IsSpace(c) THEN "tail" ELSE "fail")
      [] q = "tail" -> (IF IsSpace(c) THEN "tail" ELSE "fail")
      [] OTHER -> "fail"

RECURSIVE NumRun(_, _, _)
NumRun(s, i, q) ==
    IF i > Len(s) THEN q ELSE NumRun(s, i + 1, NumStep(q, s[i]))

IsNumericLiteral(s) == NumRun(s, 1, "start") \in {"int", "frac", "exp", "tail"}

\* The value a `STRING` column holds after text is bound to it.
StringColumn(text) ==
    IF IsNumericLiteral(text) THEN [ty |-> "numeric", v |-> text]
    ELSE [ty |-> "text", v |-> text]

\* row.get::<String>: only a text value converts.
GetString(cell) ==
    IF cell.ty = "text" THEN [ok |-> TRUE, v |-> cell.v]
    ELSE [ok |-> FALSE, v |-> <<>>]

(* -------------------------------------------------------------- SQLTimerRow *)

SQLTimerRow(id, task, start, end, idle, status) ==
    [id |-> id, task |-> task, start |-> start, end |-> end,
     idle |-> idle, status |-> status]

NoRow == SQLTimerRow(0, <<>>, 0, 0, 0, 0)

\* SQLTimerRow::from_row: a stored row read back into the struct.
from_row(r) ==
    LET task == GetString(r.task)
    IN  IF task.ok
        THEN [ok |-> TRUE,
              row |-> SQLTimerRow(r.id, task.v, r.start, r.end, r.idle, r.status)]
        ELSE [ok |-> FALSE, row |-> NoRow]

\* The values bound by INSERT and UPDATE, as the columns hold them.
Stored(id, row) ==
    [id |-> id, task |-> StringColumn(row.task), start |-> row.start,
     end |-> row.end, idle |-> row.idle, status |-> row.status]

(* ------------------------------------------------- TimerStatus <-> u32 code *)

StatusCodes == {0, 1, 2, 3, 9}

\* impl From<u32> for TimerStatus, on the codes it supports.
TimerStatusFrom(n) ==
    CASE n = 0 -> "NEW"
      [] n = 1 -> "RUN"
      [] n = 2 -> "PAUSED"
      [] n = 3 -> "COMPLETED"
      [] n = 9 -> "DELETED"

\* C11 mutant: DELETED takes the next discriminant after COMPLETED.
StatusCode_Sequential(st) ==
    CASE st = "NEW" -> 0
      [] st = "RUN" -> 1
      [] st = "PAUSED" -> 2
      [] st = "COMPLETED" -> 3
      [] st = "DELETED" -> 4

\* `status as u32`: the discriminants of TimerStatus.
StatusCode(st) ==
    CASE st = "NEW" -> 0
      [] st = "RUN" -> 1
      [] st = "PAUSED" -> 2
      [] st = "COMPLETED" -> 3
      [] st = "DELETED" -> 9

\* impl From<SQLTimerRow> for Timer; an unsupported code panics.
FromRow(row) ==
    IF row.status \in StatusCodes
    THEN [res |-> "Ok",
          t |-> new(row.id, row.task, row.start, row.end, row.idle,
                    TimerStatusFrom(row.status))]
    ELSE [res |-> "panic", t |-> new(0, <<>>, 0, 0, 0, "NEW")]

\* Timer::to_sqlite_row.
to_sqlite_row(t) ==
    SQLTimerRow(t.id, t.task, t.start, t.end, t.idle, StatusCode(t.status))

(* ------------------------------------------------------------ backing file *)

\* A file no Storage has opened yet.
FreshStore == [tables |-> {}, params |-> <<>>, timers |-> <<>>, seq |-> 0]

\* The value_int of the db_params rows whose param is 'version', in rowid
\* order.
VersionRecords(d) ==
    LET idx == {i \in 1..Len(d.params) : d.params[i].param = "version"}
        RECURSIVE Pick(_)
        Pick(i) == IF i > Len(d.params) THEN <<>>
                   ELSE IF i \in idx THEN <<d.params[i].value_int>> \o Pick(i + 1)
                   ELSE Pick(i + 1)
    IN  Pick(1)

\* Storage::get_version: the first row of the SELECT, if any.
get_version(d) ==
    LET v == VersionRecords(d)
    IN  IF v = <<>> THEN [some |-> FALSE, v |-> 0]
        ELSE [some |-> TRUE, v |-> v[1]]

\* C12 mutant: the stored version is read but not compared.
StorageNew_NoVersionCheck(d) ==
    LET d1 == [d EXCEPT !.tables = @ \cup {"db_params", "timers"}]
        ver == get_version(d1)
    IN  IF ver.some THEN [db |-> d1, res |-> "Ok"]
        ELSE [db |-> [d1 EXCEPT !.params =
                        Append(@, [param |-> "version",
                                   value_int |-> SCHEMA_VERSION])],
              res |-> "Ok"]

\* C13 mutant: the version record is written on every successful open.
StorageNew_AlwaysWritesVersion(d) ==
    LET d1 == [d EXCEPT !.tables = @ \cup {"db_params", "timers"}]
        ver == get_version(d1)
    IN  IF ver.some /\ ver.v # SCHEMA_VERSION
        THEN [db |-> d1, res |-> "SchemaVersionError"]
        ELSE [db |-> [d1 EXCEPT !.params =
                        Append(@, [param |-> "version",
                                   value_int |-> SCHEMA_VERSION])],
              res |-> "Ok"]

\* Storage::new on the file d: both CREATE TABLE IF NOT EXISTS, then the
\* version gate.
StorageNew(d) ==
    LET d1 == [d EXCEPT !.tables = @ \cup {"db_params", "timers"}]
        ver == get_version(d1)
    IN  IF ver.some
        THEN IF ver.v # SCHEMA_VERSION
             THEN [db |-> d1, res |-> "SchemaVersionError"]
             ELSE [db |-> d1, res |-> "Ok"]
        ELSE [db |-> [d1 EXCEPT !.params =
                        Append(@, [param |-> "version",
                                   value_int |-> SCHEMA_VERSION])],
              res |-> "Ok"]

Max(S) == CHOOSE x \in S : \A y \in S : x >= y

Ids(d) == {d.timers[i].id : i \in 1..Len(d.timers)}

\* The rowid AUTOINCREMENT assigns: one above the largest ever used.
NextId(d) == Max({d.seq} \cup Ids(d)) + 1

\* C15 mutant: the id of the supplied row is bound as well.
insert_timer_KeepsId(d, row) ==
    LET id == IF row.id > 0 THEN row.id ELSE NextId(d)
    IN  [db |-> [d EXCEPT !.timers = Append(@, Stored(id, row)),
                          !.seq = Max({@, id})],
         res |-> "Ok", id |-> id]

\* Storage::insert_timer: INSERT without the id column, then
\* last_insert_rowid().
insert_timer(d, row) ==
    LET id == NextId(d)
    IN  [db |-> [d EXCEPT !.timers = Append(@, Stored(id, row)),
                          !.seq = id],
         res |-> "Ok", id |-> id]

\* C30 mutant: the UPDATE sets the status column only.
update_timer_StatusOnly(d, row) ==
    [db |-> [d EXCEPT !.timers =
                [i \in 1..Len(@) |->
                    IF @[i].id = row.id THEN [@[i] EXCEPT !.status = row.status]
                    ELSE @[i]]],
     res |-> "Ok"]

\* C33 mutant: the UPDATE has no WHERE clause.
update_timer_AllRows(d, row) ==
    [db |-> [d EXCEPT !.timers =
                [i \in 1..Len(@) |-> Stored(@[i].id, row)]],
     res |-> "Ok"]

\* Storage::update_timer: UPDATE ... WHERE id = row.id; the number of rows
\* changed is not looked at.
update_timer(d, row) ==
    [db |-> [d EXCEPT !.timers =
                [i \in 1..Len(@) |->
                    IF @[i].id = row.id THEN Stored(row.id, row) ELSE @[i]]],
     res |-> "Ok"]

\* Storage::is_timer_exist: SELECT count(0) ... WHERE id = ?1 is an
\* aggregate without GROUP BY, which yields one row (the count, 0 included)
\* whatever the table holds, so query_row never reports QueryReturnedNoRows
\* and the Ok(_) arm is taken.
is_timer_exist(d, id) ==
    LET n == Cardinality({i \in 1..Len(d.timers) : d.timers[i].id = id})
        rows == <<n>>
    IN  IF rows # <<>> THEN [res |-> "Ok", out |-> TRUE]
        ELSE [res |-> "Ok", out |-> FALSE]

\* Storage::get_timer_by_id: query_row with from_row as the mapper.
get_timer_by_id(d, id) ==
    LET hit == {i \in 1..Len(d.timers) : d.timers[i].id = id}
    IN  IF hit = {} THEN [res |-> "TimerDoesNotExists", row |-> NoRow]
        ELSE LET r == from_row(d.timers[CHOOSE i \in hit : TRUE])
             IN  IF r.ok THEN [res |-> "Ok", row |-> r.row]
                 ELSE [res |-> "DatabaseError", row |-> NoRow]

(* ----------------------------------------------------------------- inputs *)

\* Option<String>: None, or Some(text).
NoDate == [some |-> FALSE, v |-> <<>>]

SomeDate(text) == [some |-> TRUE, v |-> text]

\* Most rows a store holds.
MaxRows == 2

\* Midnight UTC of 2024-01-0n, in seconds since the epoch.
Day(n) == (19722 + n) * 86400

TxtDemo == <<"d", "e", "m", "o">>

TxtTest == <<"t", "e", "s", "t">>

\* A task label that reads as a number.
Txt42 == <<"4", "2">>

D1 == <<"2", "0", "2", "4", "-", "0", "1", "-", "0", "1">>

D2 == <<"2", "0", "2", "4", "-", "0", "1", "-", "0", "2">>

D3 == <<"2", "0", "2", "4", "-", "0", "1", "-", "0", "3">>

Midnight == <<" ", "0", "0", ":", "0", "0">>

HalfPastTen == <<" ", "1", "0", ":", "3", "0">>

Sec00 == <<":", "0", "0">>

\* Rows handed to insert_timer and update_timer (the id of the row is the
\* caller's).
RowInputs ==
    {SQLTimerRow(0, Txt42, Day(2), Day(2), 0, 1),
     SQLTimerRow(7, TxtTest, Day(2), Day(2) + 60, 5, 2),
     SQLTimerRow(0, TxtDemo, Day(3), Day(3) + 60, 0, 3),
     SQLTimerRow(0, TxtTest, Day(3), Day(3), 0, 9),
     SQLTimerRow(0, TxtTest, Day(1), Day(1), 0, 0),
     SQLTimerRow(0, TxtDemo, Day(1), Day(1), 0, 4)}

\* Date strings that match none of the accepted shapes: empty, blank, a
\* month out of range, an hour without minutes.
BadDates ==
    {<<>>, <<" ", " ">>, <<"2", "0", "2", "4", "-", "1", "3", "-", "0", "1">>, D2 \o <<" ", "1", "0">>}

\* Date strings of the accepted shapes.
GoodDates == {D2, <<" ">> \o D3 \o Midnight}

\* The date_from / date_to arguments tried.
DateArgs == {NoDate} \cup {SomeDate(x) : x \in GoodDates \cup BadDates}

\* The limit arguments tried.
Limits == {-1, 0, 1}

\* The status argument of get_timers_by_status.
QueryStatuses == {1, 2, 3}

\* The strings str_to_time is applied to: each date alone, with a time of
\* hour:minute and with hour:minute:second, and the rejected ones.
ParseInputs ==
    UNION {{d, d \o Midnight, d \o Midnight \o Sec00,
            d \o HalfPastTen, d \o HalfPastTen \o Sec00} : d \in {D1, D2, D3}}
        \cup BadDates

\* Most str_to_time calls kept.
MaxParses == 2

\* str_to_time on the strings tried, computed once.
StrToTimeTable ==
    [x \in ParseInputs \cup GoodDates \cup BadDates |-> str_to_time(x)]

\* Self::str_to_time(t) as get_timers_by_date calls it.
StrToTimeOf(text) ==
    IF text \in DOMAIN StrToTimeTable THEN StrToTimeTable[text]
    ELSE str_to_time(text)

\* The files a process may find: none yet, or one left by a build whose
\* SCHEMA_VERSION is v, with or without a timers table of its own.
StoredVersions == {1, 2}

InitialStores ==
    {FreshStore} \cup
    {[tables |-> tb, params |-> <<[param |-> "version", value_int |-> v]>>,
      timers |-> <<>>, seq |-> 0] :
        tb \in {{"db_params"}, {"db_params", "timers"}}, v \in StoredVersions}

Min(a, b) == IF a <= b THEN a ELSE b

\* Every order of the index set S.
Perms(S) ==
    LET n == Cardinality(S)
    IN  {q \in [1..n -> S] : \A a, b \in 1..n : a # b => q[a] # q[b]}

\* items.filter_map(Result::ok).collect(): the rows that convert, in order.
RECURSIVE FilterMapOk(_, _, _)
FilterMapOk(d, q, k) ==
    IF k > Len(q) THEN <<>>
    ELSE LET r == from_row(d.timers[q[k]])
         IN  (IF r.ok THEN <<r.row>> ELSE <<>>) \o FilterMapOk(d, q, k + 1)

\* The SELECT of get_timers_by_date with its bound parameters (some = FALSE
\* is NULL): every result the ORDER BY start DESC admits, cut by LIMIT.
SelectByDate(d, limit, from, to) ==
    LET hit == {i \in 1..Len(d.timers) :
                  /\ (~from.some \/ d.timers[i].start >= from.v)
                  /\ (~to.some \/ d.timers[i].start < to.v)}
        sorted == {q \in Perms(hit) :
                     \A a, b \in 1..Len(q) :
                        a < b => d.timers[q[a]].start >= d.timers[q[b]].start}
    IN  {IF limit < 0 THEN q ELSE SubSeq(q, 1, Min(limit, Len(q))) : q \in sorted}

QueryErr(e) == [res |-> e, rows |-> <<>>, ran |-> FALSE]

\* C19 mutant: a bound that does not parse is dropped like an omitted one.
get_timers_by_date_DropsBadDate(d, limit, date_from, date_to) ==
    LET f == IF date_from.some THEN StrToTimeOf(date_from.v) ELSE TimeOk(0)
        t == IF date_to.some THEN StrToTimeOf(date_to.v) ELSE TimeOk(0)
    IN  {[res |-> "Ok", rows |-> FilterMapOk(d, q, 1), ran |-> TRUE] :
            q \in SelectByDate(d, limit,
                     [some |-> date_from.some /\ f.res = "Ok", v |-> f.ts],
                     [some |-> date_to.some /\ t.res = "Ok", v |-> t.ts])}

\* Storage::get_timers_by_date: the set of results it can return.  Both
\* bounds are parsed, date_from first, before query_map runs the statement
\* (ran).
get_timers_by_date(d, limit, date_from, date_to) ==
    LET f == IF date_from.some THEN StrToTimeOf(date_from.v) ELSE TimeOk(0)
    IN  IF f.res # "Ok" THEN {QueryErr(f.res)}
        ELSE LET t == IF date_to.some THEN StrToTimeOf(date_to.v) ELSE TimeOk(0)
             IN  IF t.res # "Ok" THEN {QueryErr(t.res)}
                 ELSE {[res |-> "Ok", rows |-> FilterMapOk(d, q, 1), ran |-> TRUE] :
                         q \in SelectByDate(d, limit,
                                  [some |-> date_from.some, v |-> f.ts],
                                  [some |-> date_to.some, v |-> t.ts])}

\* The SELECT of get_timers_by_status: the rows WHERE status = ?1, ORDER BY
\* id DESC (ids are unique, so the order is one), cut by LIMIT ?2.
SelectByStatus(d, status, limit) ==
    LET hit == {i \in 1..Len(d.timers) : d.timers[i].status = status}
        q == CHOOSE p \in Perms(hit) :
                \A a, b \in 1..Len(p) :
                   a < b => d.timers[p[a]].id > d.timers[p[b]].id
    IN  IF limit < 0 THEN q ELSE SubSeq(q, 1, Min(limit, Len(q)))

\* Storage::get_timers_by_status.
get_timers_by_status(d, status, limit) ==
    [res |-> "Ok", rows |-> FilterMapOk(d, SelectByStatus(d, status, limit), 1)]

(* -------------------------------------------------------- TimerCollection *)

\* Longest row vector a TimerCollection is built from.
MaxColl == 3

\* impl fmt::Display for TimerStatus.
Display(st) ==
    CASE st = "NEW" -> "New"
      [] st = "RUN" -> "Running"
      [] st = "PAUSED" -> "Paused"
      [] st = "COMPLETED" -> "Completed"
      [] st = "DELETED" -> "Deleted"

\* Rust's integer division, which truncates toward zero (b > 0).
RustDiv(a, b) == IF a >= 0 THEN a \div b ELSE -((-a) \div b)

\* impl From<Vec<SQLTimerRow>> for TimerCollection: every row goes through
\* Timer::from, which panics on an unknown status code.
CollectionFrom(rows) ==
    IF \E i \in 1..Len(rows) : FromRow(rows[i]).res # "Ok"
    THEN [res |-> "panic", items |-> <<>>]
    ELSE [res |-> "Ok", items |-> [i \in 1..Len(rows) |-> FromRow(rows[i]).t]]

\* C22 mutant: the filter is missing.
items_KeepsDeleted(c) == c

\* TimerCollection::items: iter().filter(status != DELETED).collect().
items(c) == SelectSeq(c, LAMBDA x : x.status # "DELETED")

\* TimerCollection::size.
size(c) == Len(items(c))

\* Timer::print through TimerCollection::print_items: one block per visible
\* timer (the duration is kept in seconds).
print_items(c, n) ==
    LET v == items(c)
    IN  [k \in 1..Len(v) |->
            [id |-> v[k].id, task |-> v[k].task, start |-> v[k].start,
             status |-> Display(v[k].status), spent |-> time_on(v[k], n)]]

\* The fold of print_stat over the first k visible timers.
RECURSIVE StatFold(_, _, _)
StatFold(v, k, n) ==
    IF k = 0 THEN [n |-> 0, n_compl |-> 0, time_on |-> 0, time_on_compl |-> 0]
    ELSE LET a == StatFold(v, k - 1, n)
             t == v[k]
             done == t.status = "COMPLETED"
         IN  [n |-> a.n + 1,
              n_compl |-> IF done THEN a.n_compl + 1 ELSE a.n_compl,
              time_on |-> a.time_on + time_on(t, n),
              time_on_compl |-> IF done THEN a.time_on_compl + time_on(t, n)
                                ELSE a.time_on_compl]

\* TimerCollection::print_stat: the figures it prints, durations in seconds.
\* any is the guard n > 0 and any_compl the guard n_compl > 0; a figure whose
\* guard is false is not printed (0 here).  n and n_compl are integers, so
\* n_compl / n * 100 divides first.
print_stat(c, n) ==
    LET v == items(c)
        a == StatFold(v, Len(v), n)
    IN  [n |-> a.n,
         n_compl |-> a.n_compl,
         any |-> a.n > 0,
         completion |-> IF a.n > 0 THEN RustDiv(a.n_compl, a.n) * 100 ELSE 0,
         total |-> IF a.n > 0 THEN a.time_on ELSE 0,
         avg |-> IF a.n > 0 THEN RustDiv(a.time_on, a.n) ELSE 0,
         any_compl |-> a.n_compl > 0,
         total_compl |-> IF a.n_compl > 0 THEN a.time_on_compl ELSE 0,
         avg_compl |-> IF a.n_compl > 0
                       THEN RustDiv(a.time_on_compl, a.n_compl) ELSE 0]

\* The first line export writes.
ExportHeader == [text |-> "n,start,end,status,time_on"]

\* C23 mutant: the line number is the position in the whole collection.
export_NumbersAll(c, n, creatable) ==
    IF ~creatable THEN [res |-> "IoError", file |-> <<>>]
    ELSE [res |-> "Ok",
          file |-> <<ExportHeader>> \o
             [j \in 1..Len(items(c)) |->
                 LET i == CHOOSE i \in 1..Len(c) :
                             /\ c[i].status # "DELETED"
                             /\ Len(items(SubSeq(c, 1, i))) = j
                     t == c[i]
                 IN  [n |-> i, start |-> t.start, end |-> t.end,
                      status |-> Display(t.status),
                      time_on |-> time_on(t, n)]]]

\* TimerCollection::export: the file it leaves (creatable: File::create
\* succeeds), one line per visible timer, the counter starting at 1.
export(c, n, creatable) ==
    IF ~creatable THEN [res |-> "IoError", file |-> <<>>]
    ELSE LET v == items(c)
         IN  [res |-> "Ok",
              file |-> <<ExportHeader>> \o
                 [j \in 1..Len(v) |->
                     [n |-> 1 + (j - 1), start |-> v[j].start, end |-> v[j].end,
                      status |-> Display(v[j].status),
                      time_on |-> time_on(v[j], n)]]]

\* No TimerCollection call yet.
NoCollCall == [op |-> "new", arg |-> <<>>, res |-> "Ok", out |-> <<>>]

\* TimerCollection::new(), not operated on.
CollIdle ==
    /\ coll = <<>>
    /\ clast = NoCollCall

(* --------------------------------------------------- Storage of src/lib.rs *)

\* lib.rs: const SCHEMA_VERSION.
LIB_SCHEMA_VERSION == 1

\* lib.rs: enum TimerStatus as i32.
LibStatusCode(st) ==
    CASE st = "RUN" -> 1
      [] st = "PAUSED" -> 2
      [] st = "CLOSED" -> 3

\* lib.rs: struct Timer.
LibTimer(task, start, end, idle, status) ==
    [task |-> task, start |-> start, end |-> end, idle |-> idle,
     status |-> status]

\* Option<Timer>.
None == [some |-> FALSE, t |-> LibTimer(<<>>, 0, 0, 0, "CLOSED")]

Some(t) == [some |-> TRUE, t |-> t]

\* A file no Storage of lib.rs has opened yet.  rows maps the primary key
\* start to the other columns of the row.
LibFreshFile == [tables |-> {}, versions |-> <<>>, rows |-> <<>>]

\* Storage::get_version of lib.rs: the first record of schema_version.
lib_get_version(f) ==
    IF f.versions = <<>> THEN [some |-> FALSE, v |-> 0]
    ELSE [some |-> TRUE, v |-> f.versions[1]]

\* Storage::new of lib.rs: the file after the call and the outcome; the
\* handle it returns has current_timer = None.
lib_new(f) ==
    LET f1 == [f EXCEPT !.tables = @ \cup {"schema_version"}]
        ver == lib_get_version(f1)
    IN  IF ver.some /\ ver.v # LIB_SCHEMA_VERSION
        THEN [file |-> f1, res |-> "SchemaVersionError"]
        ELSE [file |-> [f1 EXCEPT
                          !.versions = IF ver.some THEN @
                                       ELSE Append(@, LIB_SCHEMA_VERSION),
                          !.tables = @ \cup {"timers"}],
              res |-> "Ok"]

\* Storage::get_active_timer: query_row keeps the first row the SELECT
\* yields; the statement has no ORDER BY, so that is any row whose status is
\* not CLOSED.  A task that is not text, or a status outside 1..3, panics.
get_active_timer(f) ==
    LET hit == {st \in DOMAIN f.rows : f.rows[st].status # LibStatusCode("CLOSED")}
    IN  IF hit = {} THEN {[res |-> "Ok", ct |-> None]}
        ELSE {LET r == f.rows[st]
                  task == GetString(r.task)
              IN  IF ~task.ok \/ r.status \notin {1, 2, 3}
                  THEN [res |-> "panic", ct |-> None]
                  ELSE [res |-> "Ok",
                        ct |-> Some(LibTimer(task.v, st, r.end, r.idle,
                                             IF r.status = 1 THEN "RUN"
                                             ELSE "PAUSED"))] :
              st \in hit}

\* Storage::start_timer.  start is the PRIMARY KEY of timers, so the INSERT
\* fails when a row with the same second exists already.
start_timer(l, task, n) ==
    IF l.current_timer.some
    THEN [lib |-> l, res |-> "CurrentTimerNotClosed"]
    ELSE LET t == LibTimer(task, n, n, 0, "RUN")
         IN  IF n \in DOMAIN l.file.rows
             THEN [lib |-> l, res |-> "DatabaseError"]
             ELSE [lib |-> [l EXCEPT
                      !.file.rows =
                         [st \in DOMAIN @ \cup {n} |->
                             IF st = n
                             THEN [task |-> StringColumn(t.task),
                                   end |-> t.end, idle |-> t.idle,
                                   status |-> LibStatusCode(t.status)]
                             ELSE @[st]],
                      !.current_timer = Some(t)],
                   res |-> "Ok"]

\* C25 mutant: resuming overwrites idle with the last gap.
pause_timer_OverwritesIdle(l, n) ==
    IF ~l.current_timer.some
    THEN [lib |-> l, res |-> "TimerDoesNotExists"]
    ELSE LET t == l.current_timer.t
             t1 == IF t.status = "PAUSED"
                   THEN [t EXCEPT !.idle = n - t.end, !.status = "RUN"]
                   ELSE [t EXCEPT !.end = n, !.status = "PAUSED"]
         IN  [lib |-> [l EXCEPT
                  !.file.rows =
                     [st \in DOMAIN @ |->
                         IF st = t1.start
                         THEN [@[st] EXCEPT !.end = t1.end,
                                            !.status = LibStatusCode(t1.status),
                                            !.idle = t1.idle]
                         ELSE @[st]],
                  !.current_timer = Some(t1)],
              res |-> "Ok"]

\* Storage::pause_timer: the current timer is changed in place, then the
\* UPDATE writes its end, status and idle to the row WHERE start matches.
pause_timer(l, n) ==
    IF ~l.current_timer.some
    THEN [lib |-> l, res |-> "TimerDoesNotExists"]
    ELSE LET t == l.current_timer.t
         IN  IF t.status = "CLOSED"
             THEN [lib |-> l, res |-> "TimerHasBeenClosed"]
             ELSE LET t1 == IF t.status = "PAUSED"
                            THEN [t EXCEPT !.idle = @ + (n - t.end),
                                           !.status = "RUN"]
                            ELSE [t EXCEPT !.end = n, !.status = "PAUSED"]
                  IN  [lib |-> [l EXCEPT
                           !.file.rows =
                              [st \in DOMAIN @ |->
                                  IF st = t1.start
                                  THEN [@[st] EXCEPT
                                          !.end = t1.end,
                                          !.status = LibStatusCode(t1.status),
                                          !.idle = t1.idle]
                                  ELSE @[st]],
                           !.current_timer = Some(t1)],
                       res |-> "Ok"]

\* Storage::stop_timer: the row WHERE start matches gets its end and status
\* CLOSED, and the handle forgets the timer.
stop_timer(l, n) ==
    IF ~l.current_timer.some
    THEN [lib |-> l, res |-> "TimerDoesNotExists"]
    ELSE LET t == l.current_timer.t
             end == IF t.status = "RUN" THEN n ELSE t.end
         IN  [lib |-> [l EXCEPT
                  !.file.rows =
                     [st \in DOMAIN @ |->
                         IF st = t.start
                         THEN [@[st] EXCEPT !.end = end,
                                            !.status = LibStatusCode("CLOSED")]
                         ELSE @[st]],
                  !.current_timer = None],
              res |-> "Ok"]

\* No call on the Storage of lib.rs yet.
NoLibCall ==
    [op |-> "none", prev |-> "none", pre |-> [file |-> LibFreshFile,
                                              open |-> FALSE,
                                              current_timer |-> None],
     now |-> 0, res |-> "Ok"]

\* The store of lib.rs, untouched: a fresh file and no handle.
LibIdle ==
    /\ lib = [file |-> LibFreshFile, open |-> FALSE, current_timer |-> None]
    /\ llast = NoLibCall

(* ------------------------------------------------------- two processes *)

Procs == {1, 2}

\* The Timer methods a process may apply to the timer it has read.
Transitions == {"set_start", "set_stop", "set_complete", "set_delete"}

Apply(op, t, n) ==
    CASE op = "set_start" -> set_start(t, n)
      [] op = "set_stop" -> set_stop(t, n)
      [] op = "set_complete" -> set_complete(t, n)
      [] op = "set_delete" -> set_delete(t)

\* A process that has not read anything yet.
NoProc ==
    [pc |-> "start", read |-> NoRow, op |-> "none", at |-> 0,
     t |-> FromRow(NoRow).t]

\* No process is at work.
NoRace == [procs |-> [p \in Procs |-> NoProc], order |-> <<>>]

RaceIdle == race = NoRace

(* ---------------------------------------------------------------- actions *)

\* last: the most recent call: its name, the timer before it, the clock
\* during it, its Result and (for time_on) the value returned.
NoCall(t) == [op |-> "from", pre |-> t, now |-> 0, res |-> "Ok", val |-> 0]

\* No Storage call yet.
NoStoreCall == [op |-> "none", arg |-> <<>>, res |-> "Ok", out |-> <<>>]

\* The store, untouched: a fresh file and no handle.
StoreIdle ==
    /\ db = FreshStore
    /\ handle = FALSE
    /\ slast = NoStoreCall
    /\ written = <<>>

\* No str_to_time call yet.
ParseIdle == parses = <<>>

\* hist: nothing has happened to the Timer yet.
NoHistory == [worked |-> 0, cycles |-> TRUE]

\* One timer, not operated on.
TimerIdle ==
    /\ now = 0
    /\ timer = FromTask("demo", 0)
    /\ last = NoCall(timer)
    /\ hist = NoHistory

Init ==
    /\ now = 0
    /\ \E task \in Tasks : timer = FromTask(task, 0)
    /\ last = NoCall(timer)
    /\ hist = NoHistory
    /\ StoreIdle
    /\ ParseIdle
    /\ CollIdle
    /\ LibIdle
    /\ RaceIdle

Call(op, r) ==
    /\ timer' = r.t
    /\ last' = [op |-> op, pre |-> timer, now |-> now, res |-> r.res, val |-> 0]
    /\ hist' = [hist EXCEPT !.cycles = @ /\ op # "set_delete"]
    /\ UNCHANGED <<now, svars, pvars, cvars, lvars, rvars>>

SetStart == Call("set_start", set_start(timer, now))

SetStop == Call("set_stop", set_stop(timer, now))

SetComplete == Call("set_complete", set_complete(timer, now))

SetDelete == Call("set_delete", set_delete(timer))

TimeOn ==
    /\ last' = [op |-> "time_on", pre |-> timer, now |-> now, res |-> "Ok",
                val |-> time_on(timer, now)]
    /\ UNCHANGED <<timer, now, hist, svars, pvars, cvars, lvars, rvars>>

\* The wall clock advances by one second; a Running timer has worked one
\* second more.
Tick ==
    /\ now < MaxTime
    /\ now' = now + 1
    /\ hist' = [hist EXCEPT !.worked = IF timer.status = "RUN" THEN @ + 1
                                       ELSE @]
    /\ UNCHANGED <<timer, last, svars, pvars, cvars, lvars, rvars>>

Next ==
    \/ SetStart
    \/ SetStop
    \/ SetComplete
    \/ SetDelete
    \/ TimeOn
    \/ Tick

Spec == Init /\ [][Next]_vars

(* ---------------------------------------------------------- store actions *)

StoreCall(op, arg, res, out) ==
    slast' = [op |-> op, arg |-> arg, res |-> res, out |-> out]

\* A process starts and opens the file (main.rs: Storage::from_path).  arg
\* keeps the version records found in the file.
Open ==
    /\ ~handle
    /\ LET r == StorageNew(db)
       IN  /\ db' = r.db
           /\ handle' = (r.res = "Ok")
           /\ StoreCall("new", VersionRecords(db), r.res, <<>>)
    /\ UNCHANGED <<written, tvars, pvars, cvars, lvars, rvars>>

\* The process exits and its handle is dropped.
Close ==
    /\ handle
    /\ handle' = FALSE
    /\ StoreCall("close", <<>>, "Ok", <<>>)
    /\ UNCHANGED <<db, written, tvars, pvars, cvars, lvars, rvars>>

Insert ==
    /\ handle
    /\ Len(db.timers) < MaxRows
    /\ \E row \in RowInputs :
         LET r == insert_timer(db, row)
         IN  /\ db' = r.db
             /\ StoreCall("insert_timer", row, r.res, r.id)
             /\ written' = [i \in DOMAIN written \cup {r.id} |->
                               IF i = r.id THEN [row EXCEPT !.id = r.id]
                               ELSE written[i]]
    /\ UNCHANGED <<handle, tvars, pvars, cvars, lvars, rvars>>

\* out keeps whether a row with the id existed before the call.
Update ==
    /\ handle
    /\ \E row \in RowInputs, id \in 1..(MaxRows + 1) :
         LET arg == [row EXCEPT !.id = id]
             r == update_timer(db, arg)
         IN  /\ db' = r.db
             /\ StoreCall("update_timer", arg, r.res, id \in Ids(db))
             /\ written' = [i \in DOMAIN written |->
                               IF i = id THEN arg ELSE written[i]]
    /\ UNCHANGED <<handle, tvars, pvars, cvars, lvars, rvars>>

GetById ==
    /\ handle
    /\ \E id \in 0..(MaxRows + 1) :
         LET r == get_timer_by_id(db, id)
         IN  StoreCall("get_timer_by_id", id, r.res, r.row)
    /\ UNCHANGED <<db, handle, written, tvars, pvars, cvars, lvars, rvars>>

IsTimerExist ==
    /\ handle
    /\ \E id \in 0..(MaxRows + 1) :
         LET r == is_timer_exist(db, id)
         IN  StoreCall("is_timer_exist", id, r.res, r.out)
    /\ UNCHANGED <<db, handle, written, tvars, pvars, cvars, lvars, rvars>>

GetByDate ==
    /\ handle
    /\ \E limit \in Limits, date_from \in DateArgs, date_to \in DateArgs :
         \E r \in get_timers_by_date(db, limit, date_from, date_to) :
            StoreCall("get_timers_by_date",
                      [limit |-> limit, date_from |-> date_from,
                       date_to |-> date_to],
                      r.res, [rows |-> r.rows, ran |-> r.ran])
    /\ UNCHANGED <<db, handle, written, tvars, pvars, cvars, lvars, rvars>>

GetByStatus ==
    /\ handle
    /\ \E status \in QueryStatuses, limit \in Limits :
         LET r == get_timers_by_status(db, status, limit)
         IN  StoreCall("get_timers_by_status",
                       [status |-> status, limit |-> limit], r.res, r.rows)
    /\ UNCHANGED <<db, handle, written, tvars, pvars, cvars, lvars, rvars>>

\* A row read from the store is turned into a Timer and back
\* (Timer::from(row), then to_sqlite_row).
Convert ==
    /\ handle
    /\ \E id \in Ids(db) :
         LET g == get_timer_by_id(db, id)
             c == FromRow(g.row)
         IN  /\ g.res = "Ok"
             /\ StoreCall("convert", g.row, c.res,
                          [t |-> c.t,
                           back |-> IF c.res = "Ok" THEN to_sqlite_row(c.t)
                                    ELSE NoRow])
    /\ UNCHANGED <<db, handle, written, tvars, pvars, cvars, lvars, rvars>>

StoreInit ==
    /\ db \in InitialStores
    /\ handle = FALSE
    /\ slast = NoStoreCall
    /\ written = <<>>
    /\ TimerIdle
    /\ ParseIdle
    /\ CollIdle
    /\ LibIdle
    /\ RaceIdle

StoreNext ==
    \/ Open
    \/ Close
    \/ Insert
    \/ Update
    \/ GetById
    \/ IsTimerExist
    \/ GetByDate
    \/ GetByStatus
    \/ Convert

SpecStore == StoreInit /\ [][StoreNext]_vars

(* ---------------------------------------------------------- parse actions *)

\* Storage::str_to_time is applied to one more string.
StrToTime ==
    /\ Cardinality(DOMAIN parses) < MaxParses
    /\ \E x \in ParseInputs \ DOMAIN parses :
         parses' = [y \in DOMAIN parses \cup {x} |->
                      IF y = x THEN str_to_time(x) ELSE parses[y]]
    /\ UNCHANGED <<tvars, svars, cvars, lvars, rvars>>

ParseInit ==
    /\ ParseIdle
    /\ StoreIdle
    /\ TimerIdle
    /\ CollIdle
    /\ LibIdle
    /\ RaceIdle

ParseNext == StrToTime

SpecParse == ParseInit /\ [][ParseNext]_vars

(* ----------------------------------------------------- collection actions *)

\* Rows a TimerCollection is built from: ids out of order, one Deleted, one
\* Completed, one Running, one Paused.
CollRows ==
    {SQLTimerRow(5, TxtDemo, 0, 4, 1, 3),
     SQLTimerRow(2, TxtTest, 0, 3, 0, 9),
     SQLTimerRow(3, TxtDemo, 1, 1, 0, 1),
     SQLTimerRow(1, TxtTest, 0, 2, 0, 2)}

CollCall(op, arg, res, out) ==
    clast' = [op |-> op, arg |-> arg, res |-> res, out |-> out]

\* TimerCollection::from(rows), as main.rs builds it from a query result.
CollFrom ==
    /\ \E k \in 0..MaxColl : \E rows \in [1..k -> CollRows] :
         LET r == CollectionFrom(rows)
         IN  /\ coll' = r.items
             /\ CollCall("from", rows, r.res, <<>>)
    /\ UNCHANGED <<tvars, svars, pvars, lvars, rvars>>

CollItems ==
    /\ CollCall("items", <<>>, "Ok", items(coll))
    /\ UNCHANGED <<coll, tvars, svars, pvars, lvars, rvars>>

CollSize ==
    /\ CollCall("size", <<>>, "Ok", size(coll))
    /\ UNCHANGED <<coll, tvars, svars, pvars, lvars, rvars>>

CollPrintItems ==
    /\ CollCall("print_items", now, "Ok", print_items(coll, now))
    /\ UNCHANGED <<coll, tvars, svars, pvars, lvars, rvars>>

CollPrintStat ==
    /\ CollCall("print_stat", now, "Ok", print_stat(coll, now))
    /\ UNCHANGED <<coll, tvars, svars, pvars, lvars, rvars>>

CollExport ==
    /\ \E creatable \in BOOLEAN :
         LET r == export(coll, now, creatable)
         IN  CollCall("export", now, r.res, r.file)
    /\ UNCHANGED <<coll, tvars, svars, pvars, lvars, rvars>>

CollInit ==
    /\ CollIdle
    /\ TimerIdle
    /\ StoreIdle
    /\ ParseIdle
    /\ LibIdle
    /\ RaceIdle

CollNext ==
    \/ CollFrom
    \/ CollItems
    \/ CollSize
    \/ CollPrintItems
    \/ CollPrintStat
    \/ CollExport
    \/ Tick

SpecColl == CollInit /\ [][CollNext]_vars

(* ------------------------------------------------ actions of the lib.rs store *)

\* Most rows the timers table of lib.rs is let grow to.
MaxLibRows == 2

\* Largest value of the wall clock explored with the store of lib.rs.
MaxLibTime == 2

\* Task labels handed to start_timer.
LibTasks == {TxtDemo, Txt42}

\* llast: the call, the successful call before it, the store before the
\* call, the clock during it and its outcome.
LibCall(op, res) ==
    llast' = [op |-> op,
              prev |-> IF llast.res = "Ok" THEN llast.op ELSE "failed",
              pre |-> lib, now |-> now, res |-> res]

\* A process opens the file with Storage::new.
LibNew ==
    /\ ~lib.open
    /\ LET r == lib_new(lib.file)
       IN  /\ lib' = [file |-> r.file, open |-> r.res = "Ok",
                      current_timer |-> None]
           /\ LibCall("new", r.res)
    /\ UNCHANGED <<tvars, svars, pvars, cvars, rvars>>

\* A process opens the file with Storage::build.
LibBuild ==
    /\ ~lib.open
    /\ LET r == lib_new(lib.file)
       IN  IF r.res # "Ok"
           THEN /\ lib' = [file |-> r.file, open |-> FALSE,
                           current_timer |-> None]
                /\ LibCall("build", r.res)
           ELSE \E a \in get_active_timer(r.file) :
                  /\ lib' = [file |-> r.file, open |-> a.res = "Ok",
                             current_timer |-> a.ct]
                  /\ LibCall("build", a.res)
    /\ UNCHANGED <<tvars, svars, pvars, cvars, rvars>>

\* The process exits and its handle is dropped.
LibClose ==
    /\ lib.open
    /\ lib' = [lib EXCEPT !.open = FALSE, !.current_timer = None]
    /\ LibCall("close", "Ok")
    /\ UNCHANGED <<tvars, svars, pvars, cvars, rvars>>

LibOp(op, r) ==
    /\ lib.open
    /\ lib' = r.lib
    /\ LibCall(op, r.res)
    /\ UNCHANGED <<tvars, svars, pvars, cvars, rvars>>

StartTimer ==
    /\ lib.current_timer.some \/ Cardinality(DOMAIN lib.file.rows) < MaxLibRows
    /\ \E task \in LibTasks : LibOp("start_timer", start_timer(lib, task, now))

PauseTimer == LibOp("pause_timer", pause_timer(lib, now))

StopTimer == LibOp("stop_timer", stop_timer(lib, now))

\* The wall clock advances by one second.
LibTick ==
    /\ now < MaxLibTime
    /\ now' = now + 1
    /\ UNCHANGED <<timer, last, hist, svars, pvars, cvars, lvars, rvars>>

LibInit ==
    /\ LibIdle
    /\ TimerIdle
    /\ StoreIdle
    /\ ParseIdle
    /\ CollIdle
    /\ RaceIdle

LibNext ==
    \/ LibNew
    \/ LibBuild
    \/ LibClose
    \/ StartTimer
    \/ PauseTimer
    \/ StopTimer
    \/ LibTick

SpecLib == LibInit /\ [][LibNext]_vars

(* ------------------------------------------------- actions of two processes *)

\* The id both processes work on.
RaceId == 1

\* The row the store holds when the processes start: a Running timer or a
\* Paused one.
RaceRows ==
    {SQLTimerRow(0, TxtDemo, 0, 0, 0, 1),
     SQLTimerRow(0, TxtDemo, 0, 0, 0, 2)}

\* Process p reads the row: get_timer_by_id.
RaceRead(p) ==
    /\ race.procs[p].pc = "start"
    /\ LET g == get_timer_by_id(db, RaceId)
       IN  race' = [race EXCEPT
                      !.procs[p].pc = IF g.res = "Ok" THEN "read" ELSE "failed",
                      !.procs[p].read = g.row]
    /\ UNCHANGED <<tvars, svars, pvars, cvars, lvars>>

\* Process p turns the row into a Timer (Timer::from) and applies one
\* transition to it; when the method returns Err the process reports it and
\* writes nothing.
RaceTransition(p) ==
    /\ race.procs[p].pc = "read"
    /\ \E op \in Transitions :
         LET c == FromRow(race.procs[p].read)
             r == Apply(op, c.t, now)
         IN  race' = [race EXCEPT
                        !.procs[p].pc = IF c.res = "Ok" /\ r.res = "Ok"
                                        THEN "changed" ELSE "failed",
                        !.procs[p].op = op,
                        !.procs[p].at = now,
                        !.procs[p].t = r.t]
    /\ UNCHANGED <<tvars, svars, pvars, cvars, lvars>>

\* Process p writes its Timer back: to_sqlite_row, then update_timer.
RaceWrite(p) ==
    /\ race.procs[p].pc = "changed"
    /\ db' = update_timer(db, to_sqlite_row(race.procs[p].t)).db
    /\ race' = [race EXCEPT !.procs[p].pc = "done",
                            !.order = Append(@, p)]
    /\ UNCHANGED <<handle, slast, written, tvars, pvars, cvars, lvars>>

RaceInit ==
    /\ \E row \in RaceRows :
          db = insert_timer(StorageNew(FreshStore).db, row).db
    /\ handle = TRUE
    /\ slast = NoStoreCall
    /\ written = <<>>
    /\ RaceIdle
    /\ TimerIdle
    /\ ParseIdle
    /\ CollIdle
    /\ LibIdle

RaceNext ==
    \/ \E p \in Procs : RaceRead(p)
    \/ \E p \in Procs : RaceTransition(p)
    \/ \E p \in Procs : RaceWrite(p)
    \/ Tick

SpecRace == RaceInit /\ [][RaceNext]_vars

TypeOK ==
    /\ now \in 0..MaxTime
    /\ timer.status \in TimerStatus
    /\ timer.task \in Tasks
    /\ last.res \in {"Ok"} \cup TimerError

Terminal == {"COMPLETED", "DELETED"}

(* ----------------------------------------------------------------- claims *)

\* C1: set_start and set_stop on a Completed or Deleted timer return
\* Err(TimerHasFiniteState) and leave every field of the timer unchanged.
C1_TerminalStartStopRejected ==
    (last.op \in {"set_start", "set_stop"} /\ last.pre.status \in Terminal)
        => (last.res = "TimerHasFiniteState" /\ timer = last.pre)

C1_Witness ==
    \/ last.op = "set_start" /\ last.pre.status = "COMPLETED"
    \/ last.op = "set_stop" /\ last.pre.status = "DELETED"

\* C2: set_complete on a Completed or Deleted timer fails with
\* TimerHasFiniteState and leaves all fields, status included, unchanged.
C2_TerminalCompleteRejected ==
    (last.op = "set_complete" /\ last.pre.status \in Terminal)
        => (last.res = "TimerHasFiniteState" /\ timer = last.pre)

\* C3: Deleted is absorbing under every method, and a Completed timer can
\* only stay Completed or become Deleted.
C3_TerminalAbsorbing ==
    [][/\ timer.status = "DELETED" => timer'.status = "DELETED"
       /\ timer.status = "COMPLETED"
            => timer'.status \in {"COMPLETED", "DELETED"}]_vars

\* C4: set_start on a Paused timer adds (now - end) to the idle it had
\* before the call and sets status Running, on every pause/resume cycle.
C4_ResumeAddsIdle ==
    (last.op = "set_start" /\ last.pre.status = "PAUSED")
        => /\ timer.idle = last.pre.idle + (last.now - last.pre.end)
           /\ timer.status = "RUN"

\* C5: no call ever decreases idle (the clock is non-decreasing).
C5_IdleMonotone == [][timer'.idle >= timer.idle]_vars

\* C6: time_on of a timer that is not Running is (end - start) - idle
\* whatever the wall clock reads; of a Running timer it is
\* (now - start) - idle.
C6_TimeOn ==
    /\ timer.status # "RUN"
         => \A c \in 0..MaxTime :
               time_on(timer, c) = (timer.end - timer.start) - timer.idle
    /\ timer.status = "RUN"
         => time_on(timer, now) = (now - timer.start) - timer.idle
    /\ last.op = "time_on"
         => last.val = IF last.pre.status = "RUN"
                       THEN (last.now - last.pre.start) - last.pre.idle
                       ELSE (last.pre.end - last.pre.start) - last.pre.idle

C6_Witness ==
    /\ last.op = "time_on"
    /\ last.pre.status = "PAUSED"
    /\ last.now > last.pre.end
    /\ last.pre.idle > 0

\* C7: set_delete returns Ok from every status, leaves status Deleted and
\* changes no other field.
C7_DeleteAlwaysSucceeds ==
    last.op = "set_delete"
        => /\ last.res = "Ok"
           /\ timer = [last.pre EXCEPT !.status = "DELETED"]

C7_Witness ==
    /\ last.op = "set_delete"
    /\ last.pre.status = "COMPLETED"
    /\ timer.status = "DELETED"

\* C8: set_start on a New timer sets start = end = now, keeps idle and
\* sets status Running; on a Running timer it returns Ok and changes
\* nothing.
C8_StartFromNewAndRunning ==
    /\ (last.op = "set_start" /\ last.pre.status = "NEW")
         => /\ last.res = "Ok"
            /\ timer = [last.pre EXCEPT !.start = last.now,
                                        !.end = last.now,
                                        !.status = "RUN"]
    /\ (last.op = "set_start" /\ last.pre.status = "RUN")
         => (last.res = "Ok" /\ timer = last.pre)

C8_Witness ==
    /\ last.op = "set_start"
    /\ last.pre.status = "NEW"
    /\ last.now > last.pre.end
    /\ timer.status = "RUN"

C11_RowRoundTrip ==
    /\ (slast.op = "convert" /\ slast.arg.status \in StatusCodes)
         => (slast.res = "Ok" /\ slast.out.back = slast.arg)
    /\ <<TimerStatusFrom(0), TimerStatusFrom(1), TimerStatusFrom(2),
         TimerStatusFrom(3), TimerStatusFrom(9)>>
         = <<"NEW", "RUN", "PAUSED", "COMPLETED", "DELETED">>
    /\ \A c \in StatusCodes : StatusCode(TimerStatusFrom(c)) = c
    /\ \A st \in TimerStatus :
         StatusCode(st) \in StatusCodes /\ TimerStatusFrom(StatusCode(st)) = st

C11_Witness ==
    /\ slast.op = "convert"
    /\ slast.arg.status = 9
    /\ slast.arg.id > 0
    /\ slast.out.t.status = "DELETED"
    /\ slast.out.back = slast.arg

\* C12: Storage::new on a file whose stored version differs from 1 fails
\* with SchemaVersionError and leaves no handle; when the stored version
\* is 1 it succeeds.
C12_VersionGate ==
    slast.op = "new" =>
        /\ (slast.arg # <<>> /\ slast.arg[1] # 1)
             => (slast.res = "SchemaVersionError" /\ ~handle)
        /\ (slast.arg # <<>> /\ slast.arg[1] = 1)
             => (slast.res = "Ok" /\ handle)

C12_Witness ==
    /\ slast.op = "new"
    /\ slast.arg = <<2>>
    /\ slast.res = "SchemaVersionError"

\* C13: opening a fresh file succeeds and writes version 1; every
\* successful open leaves exactly one version record, of value 1, and no
\* open changes the timer rows.
C13_OpenIdempotent ==
    [][(~handle /\ slast'.op = "new") =>
          /\ db'.timers = db.timers
          /\ db = FreshStore
               => (slast'.res = "Ok" /\ VersionRecords(db') = <<1>>)
          /\ slast'.res = "Ok" => VersionRecords(db') = <<1>>]_vars

C13_Witness ==
    /\ slast.op = "new"
    /\ slast.res = "Ok"
    /\ slast.arg = <<1>>
    /\ Len(db.timers) >= 1
    /\ VersionRecords(db) = <<1>>

\* C14: update_timer with an id that is not in the timers table fails with
\* TimerDoesNotExists and never reports success.
C14_UpdateMissingFails ==
    (slast.op = "update_timer" /\ slast.out = FALSE)
        => slast.res = "TimerDoesNotExists"

\* C15: insert_timer ignores the id of the supplied row and returns an id
\* greater than every id returned before (1 for the first row of a store),
\* so no two rows share an id.
C15_InsertIds ==
    /\ \A i, j \in 1..Len(db.timers) :
         i # j => db.timers[i].id # db.timers[j].id
    /\ slast.op = "insert_timer" =>
         LET n == Len(db.timers)
         IN  /\ slast.res = "Ok"
             /\ db.timers[n].id = slast.out
             /\ \A i \in 1..(n - 1) : db.timers[i].id < slast.out
             /\ \A i \in DOMAIN written \ {slast.out} : i < slast.out
             /\ n = 1 => slast.out = 1

C15_Witness ==
    /\ slast.op = "insert_timer"
    /\ slast.arg.id = 7
    /\ slast.out = 2
    /\ Len(db.timers) = 2

\* C16: get_timer_by_id of an existing id returns that id with the task,
\* start, end, idle and status last written for it by insert_timer or
\* update_timer.
C16_ReadYourWrites ==
    (slast.op = "get_timer_by_id" /\ slast.arg \in DOMAIN written)
        => (slast.res = "Ok" /\ slast.out = written[slast.arg])

\* C17: get_timer_by_id returns the row when a row with the id exists and
\* Err(TimerDoesNotExists), never a database error or another row,
\* otherwise.
C17_GetById ==
    slast.op = "get_timer_by_id" =>
        IF slast.arg \in Ids(db)
        THEN slast.res = "Ok" /\ slast.out.id = slast.arg
        ELSE slast.res = "TimerDoesNotExists" /\ slast.out = NoRow

\* The timestamp a well-formed bound of DateArgs stands for.
BoundOf(arg) == IF Trim(arg.v) = D2 THEN Day(2) ELSE Day(3)

\* The ids of the rows whose start lies in [date_from, date_to).
InRange(date_from, date_to) ==
    {db.timers[i].id : i \in
        {i \in 1..Len(db.timers) :
            /\ (date_from.some => db.timers[i].start >= BoundOf(date_from))
            /\ (date_to.some => db.timers[i].start < BoundOf(date_to))}}

StartOf(id) ==
    LET i == CHOOSE i \in 1..Len(db.timers) : db.timers[i].id = id
    IN  db.timers[i].start

\* C18: get_timers_by_date returns exactly the rows with
\* date_from <= start < date_to, by start descending; all of them when
\* limit < 0, the first limit of that order otherwise.
C18_ByDate ==
    (/\ slast.op = "get_timers_by_date"
     /\ slast.arg.date_from.v \notin BadDates
     /\ slast.arg.date_to.v \notin BadDates)
        => LET rows == slast.out.rows
               got == {rows[k].id : k \in 1..Len(rows)}
               all == InRange(slast.arg.date_from, slast.arg.date_to)
               limit == slast.arg.limit
           IN  /\ slast.res = "Ok"
               /\ got \subseteq all
               /\ \A a, b \in 1..Len(rows) :
                    a < b => (rows[a].start >= rows[b].start /\ rows[a].id # rows[b].id)
               /\ Len(rows) = IF limit < 0 THEN Cardinality(all)
                              ELSE Min(limit, Cardinality(all))
               /\ \A x \in got, y \in all \ got : StartOf(x) >= StartOf(y)

\* C19: get_timers_by_date with a date string of none of the accepted
\* shapes, empty and blank ones included, returns Err(WrongDatetimeFormat)
\* and no rows whatever the other bound is, before the query is run.
C19_BadDateFails ==
    (/\ slast.op = "get_timers_by_date"
     /\ \/ (slast.arg.date_from.some /\ slast.arg.date_from.v \in BadDates)
        \/ (slast.arg.date_to.some /\ slast.arg.date_to.v \in BadDates))
        => /\ slast.res = "WrongDatetimeFormat"
           /\ slast.out.rows = <<>>
           /\ ~slast.out.ran

C19_Witness ==
    /\ slast.op = "get_timers_by_date"
    /\ slast.arg.date_from = SomeDate(D2)
    /\ slast.arg.date_to = SomeDate(<<" ", " ">>)
    /\ Len(db.timers) >= 1
    /\ slast.res = "WrongDatetimeFormat"

\* The calls made among the strings of X returned the value v.
AllGive(X, v) == \A x \in X \cap DOMAIN parses : parses[x] = v

\* C20: for a date D, str_to_time of "D", "D 00:00" and "D 00:00:00" is the
\* same timestamp, midnight UTC of D, and str_to_time of "D hh:mm" is that
\* of "D hh:mm:00".
C20_ShapesAgree ==
    \A n \in 1..3 :
        LET D == <<D1, D2, D3>>[n]
            date == {D, D \o Midnight, D \o Midnight \o Sec00}
            time == {D \o HalfPastTen, D \o HalfPastTen \o Sec00}
        IN  /\ AllGive(date, TimeOk(Day(n)))
            /\ AllGive(time, TimeOk(Day(n) + 10 * 3600 + 30 * 60))
            /\ \A x, y \in date \cap DOMAIN parses : parses[x] = parses[y]
            /\ \A x, y \in time \cap DOMAIN parses : parses[x] = parses[y]

C20_Witness ==
    /\ D2 \in DOMAIN parses
    /\ (D2 \o Midnight) \in DOMAIN parses
    /\ parses[D2] = TimeOk(Day(2))

\* C21: get_timers_by_status(status, limit) returns only rows whose status
\* equals the argument, by id strictly descending; with limit < 0 every such
\* row, with limit >= 0 exactly min(limit, matching rows) of them, those with
\* the largest ids.
C21_ByStatus ==
    slast.op = "get_timers_by_status" =>
        LET rows == slast.out
            limit == slast.arg.limit
            match == {i \in 1..Len(db.timers) :
                         db.timers[i].status = slast.arg.status}
            got == {rows[k].id : k \in 1..Len(rows)}
        IN  /\ slast.res = "Ok"
            /\ \A k \in 1..Len(rows) :
                  /\ rows[k].status = slast.arg.status
                  /\ \E i \in match : db.timers[i].id = rows[k].id
            /\ \A a, b \in 1..Len(rows) : a < b => rows[a].id > rows[b].id
            /\ Len(rows) = IF limit < 0 THEN Cardinality(match)
                           ELSE Min(limit, Cardinality(match))
            /\ \A i \in match :
                  db.timers[i].id \notin got
                      => \A id \in got : db.timers[i].id < id

\* The positions of the timers of the collection that are not Deleted, and
\* the k-th of them.
VisibleAt == {i \in 1..Len(coll) : coll[i].status # "DELETED"}

Nth(k) == CHOOSE i \in VisibleAt : Cardinality({j \in VisibleAt : j <= i}) = k

RECURSIVE SumTimeOn(_, _, _)
SumTimeOn(S, n, only) ==
    IF S = {} THEN 0
    ELSE LET i == CHOOSE i \in S : TRUE
         IN  (IF coll[i].status \in only THEN time_on(coll[i], n) ELSE 0)
                + SumTimeOn(S \ {i}, n, only)

\* C22: items() returns exactly the timers that are not Deleted, in the
\* order of the collection, and size() their number; a Deleted timer is in no
\* listing, in no count or total of the statistics and in no export line.
C22_DeletedHidden ==
    LET k == Cardinality(VisibleAt)
        done == {i \in VisibleAt : coll[i].status = "COMPLETED"}
    IN  /\ clast.op = "items" =>
              /\ Len(clast.out) = k
              /\ \A j \in 1..k : clast.out[j] = coll[Nth(j)]
        /\ clast.op = "size" => clast.out = k
        /\ clast.op = "print_items" =>
              /\ Len(clast.out) = k
              /\ \A j \in 1..k : clast.out[j].id = coll[Nth(j)].id
        /\ clast.op = "print_stat" =>
              /\ clast.out.n = k
              /\ clast.out.n_compl = Cardinality(done)
              /\ clast.out.total = SumTimeOn(VisibleAt, clast.arg, TimerStatus)
              /\ clast.out.total_compl =
                    SumTimeOn(VisibleAt, clast.arg, {"COMPLETED"})
        /\ (clast.op = "export" /\ clast.res = "Ok") => Len(clast.out) = 1 + k

\* A Deleted timer stands between two visible ones when items() is called.
C22_Witness ==
    /\ clast.op = "items"
    /\ \E a, b, c \in 1..Len(coll) :
          /\ a < b /\ b < c
          /\ coll[a].status # "DELETED"
          /\ coll[b].status = "DELETED"
          /\ coll[c].status # "DELETED"

\* C23: a successful export writes the header line first, then one line per
\* visible timer in collection order, numbered 1, 2, ..., k without gaps:
\* Deleted timers take no number and the number does not depend on the id.
C23_ExportNumbering ==
    (clast.op = "export" /\ clast.res = "Ok") =>
        LET k == Cardinality(VisibleAt)
        IN  /\ Len(clast.out) = 1 + k
            /\ clast.out[1] = ExportHeader
            /\ \A j \in 1..k :
                  LET t == coll[Nth(j)]
                  IN  clast.out[j + 1] =
                         [n |-> j, start |-> t.start, end |-> t.end,
                          status |-> Display(t.status),
                          time_on |-> time_on(t, clast.arg)]

\* The export follows a Deleted timer by a visible one whose id is not its
\* line number.
C23_Witness ==
    /\ clast.op = "export"
    /\ clast.res = "Ok"
    /\ Len(coll) >= 2
    /\ coll[1].status = "DELETED"
    /\ coll[2].status # "DELETED"
    /\ coll[2].id # 1

\* C29: for n > 0 visible timers of which n_compl are Completed, print_stat
\* reports n_compl / n * 100 as a percentage: 50 when half are Completed and
\* 100 only when all are.
C29_CompletionPercentage ==
    (clast.op = "print_stat" /\ clast.out.any) =>
        clast.out.completion = (clast.out.n_compl * 100) \div clast.out.n

\* C24: start_timer of lib.rs called while a current timer exists fails with
\* CurrentTimerNotClosed, inserts no row and leaves current_timer unchanged;
\* called right after a successful stop_timer it succeeds.
C24_StartGuard ==
    llast.op = "start_timer" =>
        /\ llast.pre.current_timer.some =>
              /\ llast.res = "CurrentTimerNotClosed"
              /\ lib.file = llast.pre.file
              /\ lib.current_timer = llast.pre.current_timer
        /\ llast.prev = "stop_timer" => llast.res = "Ok"

\* C25: pause_timer of lib.rs toggles the current timer: Running gets
\* end = now and becomes Paused; Paused gets now - end added to its idle and
\* becomes Running; after a successful call the row's end, status and idle
\* equal the current timer's; without a current timer the call fails with
\* TimerDoesNotExists.
C25_PauseToggles ==
    llast.op = "pause_timer" =>
        LET pre == llast.pre.current_timer
            cur == lib.current_timer
        IN  /\ ~pre.some =>
                  (llast.res = "TimerDoesNotExists" /\ lib = llast.pre)
            /\ (pre.some /\ pre.t.status = "RUN") =>
                  /\ llast.res = "Ok"
                  /\ cur = Some([pre.t EXCEPT !.end = llast.now,
                                              !.status = "PAUSED"])
            /\ (pre.some /\ pre.t.status = "PAUSED") =>
                  /\ llast.res = "Ok"
                  /\ cur = Some([pre.t EXCEPT
                                   !.idle = pre.t.idle + (llast.now - pre.t.end),
                                   !.status = "RUN"])
            /\ llast.res = "Ok" =>
                  /\ cur.t.start \in DOMAIN lib.file.rows
                  /\ lib.file.rows[cur.t.start].end = cur.t.end
                  /\ lib.file.rows[cur.t.start].status = LibStatusCode(cur.t.status)
                  /\ lib.file.rows[cur.t.start].idle = cur.t.idle

\* A timer that was idle before is resumed after a second pause.
C25_Witness ==
    /\ llast.op = "pause_timer"
    /\ llast.res = "Ok"
    /\ llast.pre.current_timer.some
    /\ llast.pre.current_timer.t.status = "PAUSED"
    /\ llast.pre.current_timer.t.idle > 0
    /\ llast.now > llast.pre.current_timer.t.end

\* C26: for a timer driven from New by set_start, set_stop and set_complete
\* under a non-decreasing clock, whenever it is Paused or Completed time_on()
\* equals the time it has spent Running, every pause gap excluded.
C26_TimeOnIsWorked ==
    (hist.cycles /\ timer.status \in {"PAUSED", "COMPLETED"})
        => time_on(timer, now) = hist.worked

\* C27: idle is changed only by set_start on a Paused timer; every other
\* call (set_start on New or Running, set_stop, set_complete, set_delete,
\* time_on, and any refused call) leaves idle as it was.
C27_IdleOnlyOnResume ==
    (/\ last.op \in {"set_start", "set_stop", "set_complete", "set_delete",
                     "time_on"}
     /\ ~(last.op = "set_start" /\ last.pre.status = "PAUSED"))
        => timer.idle = last.pre.idle

\* A timer that has been idle is paused or completed while Running.
C27_Witness ==
    /\ last.op \in {"set_stop", "set_complete"}
    /\ last.pre.status = "RUN"
    /\ last.pre.idle > 0
    /\ last.res = "Ok"

\* C28: converting a row whose status code is none of 0, 1, 2, 3, 9 into a
\* Timer yields a typed error; it does not panic.
C28_UnknownStatusTypedError ==
    (slast.op = "convert" /\ slast.arg.status \notin StatusCodes)
        => slast.res \in StorageError \cup TimerError

\* C30: two processes that each read the row, apply a transition to the
\* Timer and write it back are not atomic: the stored row is always the last
\* writer's transition applied to the row that writer read, whatever the
\* other process wrote in between, so when both read the same row one
\* transition is lost.
C30_LastWriterOnly ==
    race.order # <<>> =>
        LET pr == race.procs[race.order[Len(race.order)]]
        IN  db.timers[1] =
               Stored(RaceId,
                      to_sqlite_row(Apply(pr.op, FromRow(pr.read).t, pr.at).t))

\* Both processes read the same row and both wrote: the delete of the first
\* writer is overwritten by the other's pause, or the pause of the first by
\* the other's delete.
C30_Witness ==
    /\ Len(race.order) = 2
    /\ race.procs[1].read = race.procs[2].read
    /\ LET first == race.procs[race.order[1]]
           second == race.procs[race.order[2]]
       IN  \/ /\ first.op = "set_delete"
              /\ second.op = "set_stop"
              /\ db.timers[1].status = StatusCode("PAUSED")
           \/ /\ first.op = "set_stop"
              /\ first.t.end > first.read.end
              /\ second.op = "set_delete"
              /\ db.timers[1].end = second.read.end

\* C31: is_timer_exist(id) returns Ok(true) if and only if a row with that
\* id exists in the timers table; for an id never inserted it returns
\* Ok(false).
C31_ExistIffRow ==
    slast.op = "is_timer_exist" =>
        /\ slast.res = "Ok"
        /\ slast.out = (slast.arg \in Ids(db))

\* C32: for every timer reached from a New timer by set_start, set_stop,
\* set_complete and set_delete under a non-decreasing clock, start <= end,
\* idle >= 0 and time_on() >= 0 hold, also after deleting a Running timer
\* that had been paused and resumed.
C32_NonNegative ==
    /\ timer.start <= timer.end
    /\ timer.idle >= 0
    /\ time_on(timer, now) >= 0

\* C33: update_timer changes at most the one row whose id is the argument's
\* id: every other row keeps all its fields, the number of rows stays, and
\* with an id no row has the timers table (and the rest of the file) is left
\* as it was.
C33_UpdateTouchesOneRow ==
    [][slast'.op = "update_timer" =>
          /\ Len(db'.timers) = Len(db.timers)
          /\ \A i \in 1..Len(db.timers) :
                db.timers[i].id # slast'.arg.id => db'.timers[i] = db.timers[i]
          /\ slast'.arg.id \notin Ids(db) => db'.timers = db.timers
          /\ [db' EXCEPT !.timers = db.timers] = db]_vars

\* A row is updated while the table holds another row that differs from the
\* values written.
C33_Witness ==
    /\ slast.op = "update_timer"
    /\ slast.out
    /\ Len(db.timers) = 2
    /\ \E i \in 1..2 :
          /\ db.timers[i].id # slast.arg.id
          /\ db.timers[i].status # slast.arg.status

ActiveRows ==
    {st \in DOMAIN lib.file.rows :
        lib.file.rows[st].status # LibStatusCode("CLOSED")}

\* C35: in the store of lib.rs, after any sequence of start_timer,
\* pause_timer and stop_timer, with the handle closed and the file re-opened
\* by Storage::new or Storage::build in between, at most one row has a
\* status other than CLOSED, and when current_timer is Some it is that row.
C35_OneActiveRow ==
    /\ Cardinality(ActiveRows) <= 1
    /\ lib.current_timer.some =>
          LET t == lib.current_timer.t
          IN  /\ ActiveRows = {t.start}
              /\ lib.file.rows[t.start].end = t.end
              /\ lib.file.rows[t.start].idle = t.idle
              /\ lib.file.rows[t.start].status = LibStatusCode(t.status)
====
